---------------------------- MODULE Spec2Model ----------------------------
(***************************************************************************)
(* Model of the POST /api/generate-post handler of the Brighter Business   *)
(* AI server (src/unnamed/part_000): parameter defaulting and validation,  *)
(* the variant-count clamp, the single awaited completion call, and the    *)
(* normalization of the model's raw text into post variants.               *)
(*                                                                         *)
(* Text is a sequence of one-character strings.  A JavaScript value is a   *)
(* tagged record: [t |-> "undefined"], [t |-> "null"], [t |-> "bool", b],  *)
(* [t |-> "num", n], [t |-> "nan"], [t |-> "str", s], [t |-> "arr", a]     *)
(* and [t |-> "obj", o] with o a sequence of [k, v] members in text order. *)
(* A call that may throw yields Ret(value) or Threw.                       *)
(***************************************************************************)
EXTENDS Integers, Sequences, FiniteSets, TLC

(***************************************************************************)
(* JavaScript values                                                       *)
(***************************************************************************)
Undefined == [t |-> "undefined"]
JNull == [t |-> "null"]
NaN == [t |-> "nan"]
JBool(b) == [t |-> "bool", b |-> b]
JNum(n) == [t |-> "num", n |-> n]
JStr(s) == [t |-> "str", s |-> s]
JArr(a) == [t |-> "arr", a |-> a]
JObj(o) == [t |-> "obj", o |-> o]
Member(k, v) == [k |-> k, v |-> v]

Threw == [ok |-> FALSE]
Ret(v) == [ok |-> TRUE, v |-> v]

MinOf(S) == CHOOSE x \in S : \A y \in S : x <= y
MaxOf(S) == CHOOSE x \in S : \A y \in S : x >= y

(***************************************************************************)
(* Text                                                                    *)
(***************************************************************************)
Digits == <<"0", "1", "2", "3", "4", "5", "6", "7", "8", "9">>
DigitChars == {Digits[i] : i \in 1..10}
DigitVal(c) == (CHOOSE i \in 1..10 : Digits[i] = c) - 1

\* White space as String.prototype.trim, parseInt and JSON.parse see it,
\* within the alphabet of the model.
WhiteSpace == {" ", "\n", "\t", "\r"}

T_variants == <<"v", "a", "r", "i", "a", "n", "t", "s">>
T_hook == <<"h", "o", "o", "k">>
T_caption == <<"c", "a", "p", "t", "i", "o", "n">>
T_hashtags == <<"h", "a", "s", "h", "t", "a", "g", "s">>
T_toString == <<"t", "o", "S", "t", "r", "i", "n", "g">>
T_null == <<"n", "u", "l", "l">>
T_true == <<"t", "r", "u", "e">>
T_false == <<"f", "a", "l", "s", "e">>
T_undefined == <<"u", "n", "d", "e", "f", "i", "n", "e", "d">>
T_NaN == <<"N", "a", "N">>
T_objectObject ==
  <<"[", "o", "b", "j", "e", "c", "t", " ", "O", "b", "j", "e", "c", "t",
    "]">>

\* the concatenation of a sequence of texts, by halves
RECURSIVE Concat(_)
Concat(ss) ==
  IF ss = <<>> THEN <<>>
  ELSE IF Len(ss) = 1 THEN ss[1]
  ELSE Concat(SubSeq(ss, 1, Len(ss) \div 2))
       \o Concat(SubSeq(ss, (Len(ss) \div 2) + 1, Len(ss)))

\* Array.prototype.join over texts
RECURSIVE Join(_, _)
Join(ss, sep) ==
  IF ss = <<>> THEN <<>>
  ELSE IF Len(ss) = 1 THEN ss[1]
  ELSE ss[1] \o sep \o Join(Tail(ss), sep)

Repeat(c, n) == [i \in 1..n |-> c]

\* the positions of s at or after i that hold no white space
InkFrom(s, i) == {j \in i..Len(s) : s[j] \notin WhiteSpace}

\* String.prototype.trim
Trim(s) ==
  IF InkFrom(s, 1) = {} THEN <<>>
  ELSE SubSeq(s, MinOf(InkFrom(s, 1)), MaxOf(InkFrom(s, 1)))

\* String.prototype.slice(0, n) for n >= 0
Slice0(s, n) == SubSeq(s, 1, IF Len(s) < n THEN Len(s) ELSE n)

\* String.prototype.startsWith
StartsWith(s, p) == Len(s) >= Len(p) /\ SubSeq(s, 1, Len(p)) = p

\* Number::toString of an integer
RECURSIVE NatToText(_)
NatToText(n) ==
  IF n < 10 THEN <<Digits[n + 1]>>
  ELSE NatToText(n \div 10) \o <<Digits[(n % 10) + 1]>>
IntToText(n) == IF n < 0 THEN <<"-">> \o NatToText(0 - n) ELSE NatToText(n)

\* the number a run of decimal digits denotes
RECURSIVE TextToNat(_)
TextToNat(s) ==
  IF s = <<>> THEN 0
  ELSE 10 * TextToNat(SubSeq(s, 1, Len(s) - 1)) + DigitVal(s[Len(s)])

\* the end of the run of digits that starts at position i
DigitsEnd(s, i) ==
  IF \A j \in i..Len(s) : s[j] \in DigitChars THEN Len(s) + 1
  ELSE MinOf({j \in i..Len(s) : s[j] \notin DigitChars})

(***************************************************************************)
(* JSON.parse, by recursive descent over the text.  Covered: white space,  *)
(* null, true, false, integers, strings with the escapes \" \\ \/ \n \t    *)
(* \r, arrays and objects.  The texts drawn below hold no fraction,        *)
(* exponent, \b, \f or \u escape.  A parser step yields Fail or            *)
(* At(value, next position).                                               *)
(***************************************************************************)
Fail == [ok |-> FALSE]
At(v, i) == [ok |-> TRUE, v |-> v, i |-> i]

SkipWs(s, i) ==
  IF i > Len(s) \/ s[i] \notin WhiteSpace THEN i
  ELSE IF InkFrom(s, i) = {} THEN Len(s) + 1
  ELSE MinOf(InkFrom(s, i))

HasLiteral(s, i, lit) ==
  i + Len(lit) - 1 <= Len(s) /\ SubSeq(s, i, i + Len(lit) - 1) = lit

EscapeChars == {"\"", "\\", "/", "n", "t", "r"}
Unescape(e) ==
  CASE e = "n" -> "\n"
    [] e = "t" -> "\t"
    [] e = "r" -> "\r"
    [] OTHER -> e

\* the number of consecutive backslashes that end right before position j
SlashesBefore(s, j) ==
  IF j = 1 \/ s[j - 1] # "\\" THEN 0
  ELSE IF \A k \in 1..(j - 1) : s[k] = "\\" THEN j - 1
  ELSE j - 1 - MaxOf({k \in 1..(j - 1) : s[k] # "\\"})

\* position j is the character of an escape sequence
Escaped(s, j) == SlashesBefore(s, j) % 2 = 1
\* position j is the backslash that opens an escape sequence
EscapeStart(s, j) == s[j] = "\\" /\ ~Escaped(s, j)
\* a raw control character or an unknown escape is a SyntaxError
ValidChar(s, j) ==
  IF Escaped(s, j) THEN s[j] \in EscapeChars ELSE s[j] \notin {"\n", "\t", "\r"}

ClosingQuotes(s, i) == {k \in i..Len(s) : s[k] = "\"" /\ ~Escaped(s, k)}
KeptPositions(s, i, k) ==
  SelectSeq([n \in 1..(k - i) |-> i + n - 1], LAMBDA j : ~EscapeStart(s, j))
Unescaped(s, kept) ==
  [n \in 1..Len(kept) |->
     IF Escaped(s, kept[n]) THEN Unescape(s[kept[n]]) ELSE s[kept[n]]]
StringBody(s, i, k) ==
  IF \E j \in i..(k - 1) : ~ValidChar(s, j) THEN Fail
  ELSE At(Unescaped(s, KeptPositions(s, i, k)), k + 1)

\* The characters of a string literal from position i (after the opening
\* quote) to its closing quote, the first quote that no backslash escapes.
ParseString(s, i) ==
  IF ClosingQuotes(s, i) = {} THEN Fail
  ELSE StringBody(s, i, MinOf(ClosingQuotes(s, i)))

NumberOf(neg, ds, d1) ==
  IF ds = <<>> \/ (Len(ds) > 1 /\ ds[1] = "0") THEN Fail
  ELSE At(JNum(IF neg THEN 0 - TextToNat(ds) ELSE TextToNat(ds)), d1)
NumberFrom(s, neg, d0) ==
  NumberOf(neg, SubSeq(s, d0, DigitsEnd(s, d0) - 1), DigitsEnd(s, d0))
\* -?(0|[1-9][0-9]*) at position i
ParseNumber(s, i) == NumberFrom(s, s[i] = "-", IF s[i] = "-" THEN i + 1 ELSE i)

StringValue(r) == IF r.ok THEN At(JStr(r.v), r.i) ELSE Fail

RECURSIVE ValueAt(_, _)
RECURSIVE ParseElements(_, _, _)
RECURSIVE ParseMembers(_, _, _)

\* after an element r: "]" ends the array, "," continues it
ElementsNext(s, r, j, acc) ==
  IF j > Len(s) THEN Fail
  ELSE IF s[j] = "]" THEN At(JArr(Append(acc, r.v)), j + 1)
  ELSE IF s[j] = "," THEN ParseElements(s, SkipWs(s, j + 1), Append(acc, r.v))
  ELSE Fail
ElementsAfter(s, r, acc) ==
  IF ~r.ok THEN Fail ELSE ElementsNext(s, r, SkipWs(s, r.i), acc)
\* value ("," value)* "]"
ParseElements(s, i, acc) == ElementsAfter(s, ValueAt(s, i), acc)

\* after a member k : r, "}" ends the object, "," continues it
MembersNext(s, k, r, j, acc) ==
  IF j > Len(s) THEN Fail
  ELSE IF s[j] = "}" THEN At(JObj(Append(acc, Member(k.v, r.v))), j + 1)
  ELSE IF s[j] = ","
    THEN ParseMembers(s, SkipWs(s, j + 1), Append(acc, Member(k.v, r.v)))
  ELSE Fail
MembersValue(s, k, r, acc) ==
  IF ~r.ok THEN Fail ELSE MembersNext(s, k, r, SkipWs(s, r.i), acc)
MembersColon(s, k, c, acc) ==
  IF c > Len(s) \/ s[c] # ":" THEN Fail
  ELSE MembersValue(s, k, ValueAt(s, SkipWs(s, c + 1)), acc)
MembersKey(s, k, acc) ==
  IF ~k.ok THEN Fail ELSE MembersColon(s, k, SkipWs(s, k.i), acc)
\* string ":" value ("," string ":" value)* "}"
ParseMembers(s, i, acc) ==
  IF i > Len(s) \/ s[i] # "\"" THEN Fail
  ELSE MembersKey(s, ParseString(s, i + 1), acc)

ArrayAt(s, j) ==
  IF j <= Len(s) /\ s[j] = "]" THEN At(JArr(<<>>), j + 1)
  ELSE ParseElements(s, j, <<>>)
ObjectAt(s, j) ==
  IF j <= Len(s) /\ s[j] = "}" THEN At(JObj(<<>>), j + 1)
  ELSE ParseMembers(s, j, <<>>)

\* the value that starts at position i, which holds no white space
ValueAt(s, i) ==
  IF i > Len(s) THEN Fail
  ELSE IF HasLiteral(s, i, T_null) THEN At(JNull, i + 4)
  ELSE IF HasLiteral(s, i, T_true) THEN At(JBool(TRUE), i + 4)
  ELSE IF HasLiteral(s, i, T_false) THEN At(JBool(FALSE), i + 5)
  ELSE IF s[i] = "-" \/ s[i] \in DigitChars THEN ParseNumber(s, i)
  ELSE IF s[i] = "\"" THEN StringValue(ParseString(s, i + 1))
  ELSE IF s[i] = "[" THEN ArrayAt(s, SkipWs(s, i + 1))
  ELSE IF s[i] = "{" THEN ObjectAt(s, SkipWs(s, i + 1))
  ELSE Fail

WholeText(s, r) == IF r.ok /\ SkipWs(s, r.i) > Len(s) THEN Ret(r.v) ELSE Threw
\* JSON.parse(text): Ret(value), or Threw (SyntaxError)
JSONParse(s) == WholeText(s, ValueAt(s, SkipWs(s, 1)))

(***************************************************************************)
(* The text of a JSON value, as the completion service would emit it.      *)
(***************************************************************************)
EscapeChar(c) ==
  CASE c = "\"" -> <<"\\", "\"">>
    [] c = "\\" -> <<"\\", "\\">>
    [] c = "\n" -> <<"\\", "n">>
    [] c = "\t" -> <<"\\", "t">>
    [] c = "\r" -> <<"\\", "r">>
    [] OTHER -> <<c>>
Quote(s) == <<"\"">> \o Concat([i \in 1..Len(s) |-> EscapeChar(s[i])]) \o <<"\"">>

RECURSIVE Stringify(_)
Stringify(v) ==
  CASE v.t = "null" -> T_null
    [] v.t = "bool" -> IF v.b THEN T_true ELSE T_false
    [] v.t = "num" -> IntToText(v.n)
    [] v.t = "str" -> Quote(v.s)
    [] v.t = "arr" ->
         <<"[">> \o Join([i \in 1..Len(v.a) |-> Stringify(v.a[i])], <<",">>) \o <<"]">>
    [] v.t = "obj" ->
         <<"{">>
         \o Join([i \in 1..Len(v.o) |->
                    Quote(v.o[i].k) \o <<":">> \o Stringify(v.o[i].v)], <<",">>)
         \o <<"}">>

(***************************************************************************)
(* JavaScript operations the handler uses                                  *)
(***************************************************************************)
\* ToBoolean
Truthy(v) ==
  CASE v.t = "undefined" -> FALSE
    [] v.t = "null" -> FALSE
    [] v.t = "nan" -> FALSE
    [] v.t = "bool" -> v.b
    [] v.t = "num" -> v.n # 0
    [] v.t = "str" -> v.s # <<>>
    [] OTHER -> TRUE

\* a || b
OrElse(a, b) == IF Truthy(a) THEN a ELSE b

\* a destructuring default: used only when the property is undefined
Default(v, d) == IF v = Undefined THEN d ELSE v

HasKey(o, k) == \E i \in 1..Len(o) : o[i].k = k
\* the last member of that name wins, as JSON.parse keeps it
Lookup(o, k) == o[MaxOf({i \in 1..Len(o) : o[i].k = k})].v

\* v.k for a key that no prototype defines: a TypeError on null and
\* undefined, the own property of an object, undefined otherwise
GetProp(v, k) ==
  IF v.t \in {"undefined", "null"} THEN Threw
  ELSE IF v.t = "obj" /\ HasKey(v.o, k) THEN Ret(Lookup(v.o, k))
  ELSE Ret(Undefined)

\* v.trim(): only a string has the method
CallTrim(v) == IF v.t = "str" THEN Ret(Trim(v.s)) ELSE Threw

JoinTexts(parts) ==
  IF \E i \in 1..Len(parts) : ~parts[i].ok THEN Threw
  ELSE Ret(Join([i \in 1..Len(parts) |-> parts[i].v], <<",">>))

\* String(v).  A parsed object that owns a "toString" member has a
\* non-callable toString, and Object.prototype.valueOf returns the object:
\* OrdinaryToPrimitive throws a TypeError.  An array joins its elements,
\* null and undefined as the empty text.
RECURSIVE ToText(_)
ElementText(e) == IF e.t \in {"undefined", "null"} THEN Ret(<<>>) ELSE ToText(e)
ToText(v) ==
  CASE v.t = "undefined" -> Ret(T_undefined)
    [] v.t = "null" -> Ret(T_null)
    [] v.t = "nan" -> Ret(T_NaN)
    [] v.t = "bool" -> Ret(IF v.b THEN T_true ELSE T_false)
    [] v.t = "num" -> Ret(IntToText(v.n))
    [] v.t = "str" -> Ret(v.s)
    [] v.t = "obj" -> IF HasKey(v.o, T_toString) THEN Threw ELSE Ret(T_objectObject)
    [] v.t = "arr" -> JoinTexts([i \in 1..Len(v.a) |-> ElementText(v.a[i])])

NumberOrNaN(neg, ds) ==
  IF ds = <<>> THEN NaN ELSE JNum(IF neg THEN 0 - TextToNat(ds) ELSE TextToNat(ds))
LeadingDigits(neg, d) == NumberOrNaN(neg, SubSeq(d, 1, DigitsEnd(d, 1) - 1))
SignedDigits(s) ==
  IF s # <<>> /\ s[1] \in {"-", "+"} THEN LeadingDigits(s[1] = "-", Tail(s))
  ELSE LeadingDigits(FALSE, s)
\* parseInt(text, 10): leading white space, a sign, then decimal digits
ParseIntText(s) == SignedDigits(SubSeq(s, SkipWs(s, 1), Len(s)))

IntOfText(r) == IF r.ok THEN Ret(ParseIntText(r.v)) ELSE Threw
\* parseInt(v, 10): the argument is converted with String first
ParseInt(v) == IntOfText(ToText(v))

\* Math.max and Math.min: NaN if either argument is NaN
MathMax(a, b) == IF a.t = "nan" \/ b.t = "nan" THEN NaN ELSE IF a.n >= b.n THEN a ELSE b
MathMin(a, b) == IF a.t = "nan" \/ b.t = "nan" THEN NaN ELSE IF a.n <= b.n THEN a ELSE b

(***************************************************************************)
(* Response normalization                                                  *)
(***************************************************************************)
HookMax == 120

CaptionPlaceholder ==
  <<"N", "e", "w", " ", "p", "o", "s", "t", " ", "c", "o", "m", "i", "n",
    "g", " ", "s", "o", "o", "n", "!">>
HookPlaceholder ==
  <<"N", "e", "w", " ", "r", "e", "s", "u", "l", "t", "s", " ", "w", "i",
    "t", "h", "o", "u", "t", " ", "e", "x", "t", "r", "a", " ", "r", "i",
    "s", "k", ".">>

Variant(h, c, t) == [hook |-> h, caption |-> c, hashtags |-> t]
DefaultVariant == Variant(HookPlaceholder, CaptionPlaceholder, <<>>)

\* caption.split(/[\n.!?]/)[0]
Delimiters == {"\n", ".", "!", "?"}
SplitFirst(s) ==
  IF \A i \in 1..Len(s) : s[i] \notin Delimiters THEN s
  ELSE SubSeq(s, 1, MinOf({i \in 1..Len(s) : s[i] \in Delimiters}) - 1)

\* h.replace(/^#+/, "")
StripHashes(h) ==
  IF \A i \in 1..Len(h) : h[i] = "#" THEN <<>>
  ELSE SubSeq(h, MinOf({i \in 1..Len(h) : h[i] # "#"}), Len(h))

\* h.startsWith("#") ? h : `#${h.replace(/^#+/, "")}`
PrefixTag(h) == IF StartsWith(h, <<"#">>) THEN h ELSE <<"#">> \o StripHashes(h)

NonEmpty(h) == Len(h) > 0

\* the synthetic variant of the catch block
RawFallback(raw) ==
  <<Variant(<<>>, IF raw = <<>> THEN CaptionPlaceholder ELSE raw, <<>>)>>

\* (p || "").trim() of a property read p
TrimmedOr(p) == IF p.ok THEN CallTrim(OrElse(p.v, JStr(<<>>))) ELSE Threw
\* Array.isArray(p) ? p : [] of a property read p
ArrayOr(p) == IF p.ok THEN Ret(IF p.v.t = "arr" THEN p.v.a ELSE <<>>) ELSE Threw
Candidate(h, c, g) ==
  IF h.ok /\ c.ok /\ g.ok THEN Ret(Variant(h.v, c.v, g.v)) ELSE Threw
\* one element of parsed.variants, as the first map's callback reads it
MapElement(v) ==
  Candidate(TrimmedOr(GetProp(v, T_hook)), TrimmedOr(GetProp(v, T_caption)),
            ArrayOr(GetProp(v, T_hashtags)))

\* an exception in the callback leaves the try block for the catch block
Mapped(raw, m) ==
  IF \E i \in 1..Len(m) : ~m[i].ok THEN RawFallback(raw)
  ELSE [i \in 1..Len(m) |-> m[i].v]
\* FromVariants with the raw-text variant also for a "variants" that is no
\* array: the reading under which C8 as stated would hold
FromVariantsRawText(raw, vs) ==
  IF ~vs.ok \/ vs.v.t # "arr" THEN RawFallback(raw)
  ELSE Mapped(raw, [i \in 1..Len(vs.v.a) |-> MapElement(vs.v.a[i])])
\* the body of the try block after JSON.parse, with its catch block
FromVariants(raw, vs) ==
  IF ~vs.ok THEN RawFallback(raw)
  ELSE IF vs.v.t # "arr" THEN <<>>
  ELSE Mapped(raw, [i \in 1..Len(vs.v.a) |-> MapElement(vs.v.a[i])])
\* parsed.variants of the parse result p
VariantsOf(p) == IF p.ok THEN GetProp(p.v, T_variants) ELSE Threw
\* the try / catch around JSON.parse: the candidates before cleaning
ParseVariants(raw) == FromVariants(raw, VariantsOf(JSONParse(raw)))

\* if (!hook && caption) hook = split[0].trim().slice(0, 120)
DerivedHook(hook, caption) ==
  IF hook = <<>> /\ caption # <<>>
  THEN Slice0(Trim(SplitFirst(caption)), HookMax)
  ELSE hook
\* hook || "New results without extra risk."
HookOr(hook) == IF hook = <<>> THEN HookPlaceholder ELSE hook
\* the hook of a cleaned variant
CleanHook(hook, caption) == HookOr(DerivedHook(hook, caption))

PrefixAll(kept) == [i \in 1..Len(kept) |-> PrefixTag(kept[i])]
TagTexts(txt) ==
  IF \E i \in 1..Len(txt) : ~txt[i].ok THEN Threw
  ELSE Ret(PrefixAll(SelectSeq([i \in 1..Len(txt) |-> Trim(txt[i].v)], NonEmpty)))
\* the hashtags of a cleaned variant: Ret(tags), or Threw when String(h) throws
CleanTags(tags) == TagTexts([i \in 1..Len(tags) |-> ToText(tags[i])])

\* let caption = v.caption || "New post coming soon!"; caption = caption.trim()
CleanCaption(caption) ==
  Trim(IF caption = <<>> THEN CaptionPlaceholder ELSE caption)
Cleaned(hook, caption, tags) ==
  IF tags.ok THEN Ret(Variant(CleanHook(hook, caption), caption, tags.v)) ELSE Threw
\* the second map's callback
CleanVariant(v) == Cleaned(Trim(v.hook), CleanCaption(v.caption), CleanTags(v.hashtags))

Collected(clean) ==
  IF \E i \in 1..Len(clean) : ~clean[i].ok THEN Threw
  ELSE IF Len(clean) = 0 THEN Ret(<<DefaultVariant>>)
  ELSE Ret([i \in 1..Len(clean) |-> clean[i].v])
\* the second map over the candidates
CleanAll(cand) == Collected([i \in 1..Len(cand) |-> CleanVariant(cand[i])])
\* raw text to the variants of the response: Ret(variants), or Threw when
\* the cleaning map throws, which the handler's outer catch receives
Normalize(raw) == CleanAll(ParseVariants(raw))

(***************************************************************************)
(* The request handler                                                     *)
(***************************************************************************)
T_instagram == <<"i", "n", "s", "t", "a", "g", "r", "a", "m">>
T_friendly == <<"f", "r", "i", "e", "n", "d", "l", "y">>
T_en == <<"e", "n">>
T_more_sales == <<"m", "o", "r", "e", "_", "s", "a", "l", "e", "s">>
T_leads == <<"l", "e", "a", "d", "s">>
T_ecommerce_store_owners ==
  <<"e", "c", "o", "m", "m", "e", "r", "c", "e", "_", "s", "t", "o", "r",
    "e", "_", "o", "w", "n", "e", "r", "s">>
T_social_post == <<"s", "o", "c", "i", "a", "l", "_", "p", "o", "s", "t">>
T_email == <<"e", "m", "a", "i", "l">>

VariantsDefault == 2
VariantsMin == 1
VariantsMax == 3

\* const { topic, platform = "instagram", ... } = req.body
Destructure(b) ==
  [topic |-> b.topic,
   platform |-> Default(b.platform, JStr(T_instagram)),
   tone |-> Default(b.tone, JStr(T_friendly)),
   language |-> Default(b.language, JStr(T_en)),
   goal |-> Default(b.goal, JStr(T_more_sales)),
   audience |-> Default(b.audience, JStr(T_ecommerce_store_owners)),
   style |-> Default(b.style, JStr(T_social_post)),
   variantsCount |-> Default(b.variantsCount, JNum(VariantsDefault)),
   includeUrgency |-> Default(b.includeUrgency, JBool(TRUE)),
   includeSocialProof |-> Default(b.includeSocialProof, JBool(TRUE)),
   mentionAI |-> Default(b.mentionAI, JBool(TRUE))]

\* Math.min(Math.max(n, 1), 3) of the parseInt result n
Clamp(n) ==
  IF n.ok THEN Ret(MathMin(MathMax(n.v, JNum(VariantsMin)), JNum(VariantsMax)))
  ELSE Threw
\* Math.min(Math.max(parseInt(variantsCount || 2, 10), 1), 3): Ret(a number
\* or NaN), or Threw when String(variantsCount) throws
SafeVariants(variantsCount) ==
  Clamp(ParseInt(OrElse(variantsCount, JNum(VariantsDefault))))

\* the directive tables, each with its fallback; a directive is named by
\* its key (the empty key for the fallback), its wording is not modelled
GoalText(goal) ==
  IF goal.t = "str"
     /\ goal.s \in {T_more_sales,
                   <<"m", "o", "r", "e", "_", "t", "r", "a", "f", "f", "i",
                     "c">>,
                   T_leads,
                   <<"a", "w", "a", "r", "e", "n", "e", "s", "s">>}
  THEN goal.s ELSE <<>>
AudienceText(audience) ==
  IF audience.t = "str"
     /\ audience.s \in {T_ecommerce_store_owners,
                       <<"l", "o", "c", "a", "l", "_", "b", "u", "s", "i",
                         "n", "e", "s", "s">>,
                       <<"c", "o", "a", "c", "h", "e", "s", "_", "c", "o",
                         "n", "s", "u", "l", "t", "a", "n", "t", "s">>,
                       <<"g", "e", "n", "e", "r", "a", "l">>}
  THEN audience.s ELSE <<>>
StyleText(style) ==
  IF style.t = "str" /\ style.s \in {T_social_post, <<"d", "m">>, T_email}
  THEN style.s ELSE <<>>

\* the values the template of captionPrompt interpolates
ComposePrompt(l, n) ==
  [topic |-> l.topic, platform |-> l.platform, tone |-> l.tone,
   language |-> l.language,
   goalText |-> GoalText(l.goal),
   audienceText |-> AudienceText(l.audience),
   styleText |-> StyleText(l.style),
   urgencyRule |-> Truthy(l.includeUrgency),
   socialProofRule |-> Truthy(l.includeSocialProof),
   mentionAIRule |-> Truthy(l.mentionAI),
   safeVariants |-> n]

TopicRequired == [status |-> 400, success |-> FALSE, error |-> "topic is required"]
KeyNotSet ==
  [status |-> 500, success |-> FALSE,
   error |-> "OPENAI_API_KEY is not set on the server."]
Failed(details) ==
  [status |-> 500, success |-> FALSE, error |-> "Failed to generate post.",
   details |-> details]
Success(l, variants) ==
  [status |-> 200, success |-> TRUE, topic |-> l.topic, platform |-> l.platform,
   tone |-> l.tone, language |-> l.language, goal |-> l.goal,
   audience |-> l.audience, style |-> l.style,
   variantsCount |-> Len(variants), variants |-> variants]

\* prompt composition and the call, once topic and key have passed
CallWith(l, n) ==
  IF n.ok THEN [call |-> TRUE, prompt |-> ComposePrompt(l, n.v)]
  ELSE [call |-> FALSE, res |-> Failed("TypeError")]
\* Guarded with the two guards in the other order
GuardedKeyFirst(l, key) ==
  IF ~Truthy(key) THEN [call |-> FALSE, res |-> KeyNotSet]
  ELSE IF ~Truthy(l.topic) THEN [call |-> FALSE, res |-> TopicRequired]
  ELSE CallWith(l, SafeVariants(l.variantsCount))
\* Guarded without the guard on the key
GuardedNoKeyCheck(l, key) ==
  IF ~Truthy(l.topic) THEN [call |-> FALSE, res |-> TopicRequired]
  ELSE CallWith(l, SafeVariants(l.variantsCount))
\* the two guards of the handler, in the order of the code
Guarded(l, key) ==
  IF ~Truthy(l.topic) THEN [call |-> FALSE, res |-> TopicRequired]
  ELSE IF ~Truthy(key) THEN [call |-> FALSE, res |-> KeyNotSet]
  ELSE CallWith(l, SafeVariants(l.variantsCount))
\* The handler up to its await: the response it sends at once, or the
\* prompt of the completion call it makes.
Begin(b, key) == Guarded(Destructure(b), key)

\* chatResponse.choices?.[0]?.message?.content?.trim() || ""
RawOf(content) ==
  IF content.t \in {"undefined", "null"} THEN Ret(<<>>) ELSE CallTrim(content)

NormalizeRaw(raw) == IF raw.ok THEN Normalize(raw.v) ELSE Threw
Respond(l, v) == IF v.ok THEN Success(l, v.v) ELSE Failed("TypeError")
\* Complete with a failed call recovered into a default success response
CompleteRecovering(l, o) ==
  IF o.ok THEN Respond(l, NormalizeRaw(RawOf(o.content)))
  ELSE Success(l, <<DefaultVariant>>)
\* The handler from the completion's outcome to its response.  An outcome
\* is [ok |-> FALSE, details] (the call threw) or [ok |-> TRUE, content].
Complete(l, o) ==
  IF o.ok THEN Respond(l, NormalizeRaw(RawOf(o.content))) ELSE Failed(o.details)

(***************************************************************************)
(* Inputs: request bodies and completion outcomes                          *)
(***************************************************************************)
NumReqs == 3
Slack == 2
MaxOver == 1

Reqs == 1..NumReqs

Obj1(k, v) == JObj(<<Member(k, v)>>)

MkBody(topic, variantsCount) ==
  [topic |-> topic, platform |-> Undefined, tone |-> Undefined,
   language |-> Undefined, goal |-> Undefined, audience |-> Undefined,
   style |-> Undefined, variantsCount |-> variantsCount,
   includeUrgency |-> Undefined, includeSocialProof |-> Undefined,
   mentionAI |-> Undefined]

\* a body that sets every field away from its default
FullBody ==
  [topic |-> JStr(<<"d", "e", "a", "l">>), platform |-> JStr(<<"t", "i", "k", "t", "o",
      "k">>),
   tone |-> JStr(<<"b", "o", "l", "d">>), language |-> JStr(<<"d", "e">>),
   goal |-> JStr(T_leads), audience |-> JStr(<<"p", "e", "t", "s">>), style |-> JStr(T_email),
   variantsCount |-> JNum(1), includeUrgency |-> JBool(FALSE),
   includeSocialProof |-> JNum(0), mentionAI |-> JNull]

Topics == {Undefined, JNull, JStr(<<>>), JStr(<<"t">>)}

CountInputs ==
  {Undefined, JNull, JBool(TRUE), JNum(10),
   JStr(<<"a", "b", "c">>), JStr(<<"3">>), JStr(<<"0">>), JStr(<<" ", "-", "2", "x">>),
   Obj1(T_toString, JNum(1))}
  \cup {JNum(n) : n \in (VariantsMin - Slack)..(VariantsMax + Slack)}

Bodies == {MkBody(t, c) : t \in Topics, c \in CountInputs} \cup {FullBody}

\* elements of a "variants" array
Elem(hook, caption, hashtags) ==
  JObj(<<Member(T_hook, hook), Member(T_caption, caption), Member(T_hashtags, hashtags)>>)

E_good ==
  Elem(JStr(<<" ", "H", "i", " ", "t", "h", "e", "r", "e", " ">>),
       JStr(<<"S", "a", "l", "e", " ", "n", "o", "w", ".", " ", "G", "o">>),
       JArr(<<JStr(<<"#", "a">>), JStr(<<"b">>)>>))
E_example ==
  Elem(JStr(<<>>), JStr(<<"B", "i", "g", " ", "s", "a", "l", "e", " ", "t",
                          "o", "d", "a", "y", ".", " ", "D", "o", "n", "'",
                          "t", " ", "m", "i", "s", "s", " ", "i", "t", ".">>),
       JArr(<<JStr(<<"s", "a", "l", "e">>), JStr(<<"#", "#", "d", "e", "a", "l", "s">>)>>))
E_delimiter == Obj1(T_caption, JStr(<<"?", "x", ".", " ", "y">>))
E_newline == Obj1(T_caption, JStr(<<"L", "i", "n", "e", " ", "o", "n", "e",
      "\n", "l", "i", "n", "e", " ", "t", "w", "o">>))
E_empty == JObj(<<>>)
E_longHook(k) == Elem(JStr(Repeat("a", HookMax + k)), JStr(<<"c">>), JArr(<<>>))
E_longCaption(k) == Obj1(T_caption, JStr(Repeat("a", HookMax + k)))
E_numberHook == Elem(JNum(5), JStr(<<"c">>), JArr(<<JStr(<<"x">>)>>))
E_zeroHook == Elem(JNum(0), JBool(FALSE), JNull)
E_objectCaption == Elem(JStr(<<"h">>), JObj(<<>>), JArr(<<>>))
E_textTags == Elem(JStr(<<"h">>), JStr(<<"c">>), JStr(<<"x">>))
E_mixedTags ==
  Elem(JStr(<<"h">>), JStr(<<"c">>),
       JArr(<<JStr(<<" ">>), JNum(7), JNull, JStr(<<"#">>), JStr(<<" ", "#", "x",
      " ">>),
              JArr(<<>>), JObj(<<>>)>>))
E_toStringTag ==
  Elem(JStr(<<"h">>), JStr(<<"c">>), JArr(<<Obj1(T_toString, JNum(1))>>))

Elements ==
  {E_good, E_example, E_delimiter, E_newline, E_empty, E_numberHook, E_zeroHook,
   E_objectCaption, E_textTags, E_mixedTags, E_toStringTag, JNull, JStr(<<
      "s">>)}
  \cup {E_longHook(k) : k \in 0..MaxOver}
  \cup {E_longCaption(k) : k \in 0..MaxOver}

WithVariants(es) == Obj1(T_variants, JArr(es))

\* the JSON values whose text the completion may return
JsonValues ==
  {WithVariants(<<e>>) : e \in Elements}
  \cup {WithVariants(<<E_good, e>>) : e \in Elements}
  \cup {WithVariants(<<>>), Obj1(<<"f", "o", "o">>, JNum(1)),
        Obj1(T_variants, JStr(<<"x">>)), JNull, JNum(5), JArr(<<JNum(1)>>),
        JStr(<<"s">>)}

\* texts that are not JSON
PlainTexts ==
  {<<>>, <<"H", "e", "l", "l", "o", ".", " ", "W", "o", "r", "l", "d">>,
   <<"!", "o", "o", "p", "s">>,
   <<"{", "\"", "v", "a", "r", "i", "a", "n", "t", "s", "\"", ":", "[">>,
   <<"#", "1", " ", "d", "e", "a", "l", "\n", "n", "o", "w">>}

Texts ==
  {Stringify(v) : v \in JsonValues} \cup PlainTexts
  \cup {<<" ", "\n">> \o Stringify(WithVariants(<<E_good>>)) \o <<" ">>}

\* a completion that resolves with its message content, or rejects
Resolved(content) == [ok |-> TRUE, content |-> content]
Rejected(details) == [ok |-> FALSE, details |-> details]

Outcomes ==
  {Resolved(JStr(x)) : x \in Texts}
  \cup {Resolved(Undefined)}
  \cup {Rejected(d) : d \in {"quota exceeded", "network"}}

\* the inputs of overlapping requests
ConcBodies == {MkBody(Undefined, Undefined), MkBody(JStr(<<"t">>), JNum(10)), FullBody}
ConcOutcomes ==
  {Resolved(JStr(Stringify(WithVariants(<<E_example>>)))),
   Resolved(JStr(<<"H", "e", "l", "l", "o", ".", " ", "W", "o", "r", "l",
                   "d">>)),
   Rejected("network")}

Keys == {Undefined, JStr(<<>>), JStr(<<"k">>)}

(***************************************************************************)
(* The server: each request is idle, awaiting its completion call, or done *)
(***************************************************************************)
VARIABLES
  apiKey,     \* OPENAI_API_KEY, read once at startup
  pc,         \* pc[r]: "idle", "awaiting" or "done"
  body,       \* body[r]: req.body
  local,      \* local[r]: the destructured parameters of the handler's run
  sent,       \* sent[r]: the prompts of the completion calls r has made
  chat,       \* chat[r]: the outcome of r's completion call
  responses   \* responses[r]: the responses r has sent

vars == <<apiKey, pc, body, local, sent, chat, responses>>

None == [t |-> "none"]

Init ==
  /\ apiKey \in Keys
  /\ pc = [r \in Reqs |-> "idle"]
  /\ body = [r \in Reqs |-> None]
  /\ local = [r \in Reqs |-> None]
  /\ sent = [r \in Reqs |-> <<>>]
  /\ chat = [r \in Reqs |-> None]
  /\ responses = [r \in Reqs |-> <<>>]

\* LocalOf with the parameters kept in one variable of the module, which
\* the latest request in flight has overwritten
LocalOfLatest(r) == local[MaxOf({q \in Reqs : pc[q] = "awaiting"})]
\* the handler's own constants, as the continuation after the await sees them
LocalOf(r) == local[r]

\* the handler has run to its first response g.res, or to the await of the
\* completion call with g.prompt
Started(r, b, g) ==
  /\ body' = [body EXCEPT ![r] = b]
  /\ local' = [local EXCEPT ![r] = Destructure(b)]
  /\ sent' = [sent EXCEPT ![r] = IF g.call THEN Append(@, g.prompt) ELSE @]
  /\ responses' = [responses EXCEPT ![r] = IF g.call THEN @ ELSE Append(@, g.res)]
  /\ pc' = [pc EXCEPT ![r] = IF g.call THEN "awaiting" ELSE "done"]
  /\ UNCHANGED <<apiKey, chat>>

\* app.post("/api/generate-post"): a request with body b arrives
Receive(r, b) ==
  /\ pc[r] = "idle"
  /\ Started(r, b, Begin(b, apiKey))

\* the completion call settles with outcome o and the handler runs to its end
Resume(r, o) ==
  /\ pc[r] = "awaiting"
  /\ chat' = [chat EXCEPT ![r] = o]
  /\ responses' = [responses EXCEPT ![r] = Append(@, Complete(LocalOf(r), o))]
  /\ pc' = [pc EXCEPT ![r] = "done"]
  /\ UNCHANGED <<apiKey, body, local, sent>>

\* the exchange is over and the request's values are discarded
Finish(r) ==
  /\ pc[r] = "done"
  /\ pc' = [pc EXCEPT ![r] = "idle"]
  /\ body' = [body EXCEPT ![r] = None]
  /\ local' = [local EXCEPT ![r] = None]
  /\ sent' = [sent EXCEPT ![r] = <<>>]
  /\ chat' = [chat EXCEPT ![r] = None]
  /\ responses' = [responses EXCEPT ![r] = <<>>]
  /\ UNCHANGED apiKey

Quiet(r) == \A q \in Reqs \ {r} : pc[q] = "idle"

\* requests served one after another, over every input
Next ==
  \E r \in Reqs :
    \/ \E b \in Bodies : Quiet(r) /\ Receive(r, b)
    \/ \E o \in Outcomes : Resume(r, o)
    \/ Finish(r)

Spec == Init /\ [][Next]_vars

\* requests that overlap in any interleaving
NextConc ==
  \E r \in Reqs :
    \/ \E b \in ConcBodies : Receive(r, b)
    \/ \E o \in ConcOutcomes : Resume(r, o)
    \/ Finish(r)

SpecConc == Init /\ [][NextConc]_vars

(***************************************************************************)
(* Properties                                                              *)
(***************************************************************************)
\* request r has run to a response
Done(r) == pc[r] = "done" /\ Len(responses[r]) = 1
Resp(r) == responses[r][1]
Succeeded(r) == Done(r) /\ Resp(r).status = 200
\* r's completion call resolved with text, and r has run to its end
GotText(r) == pc[r] = "done" /\ chat[r] # None /\ chat[r].ok /\ chat[r].content.t = "str"
\* the raw text the normalizer received
RawText(r) == Trim(chat[r].content.s)
NoTopic(b) == b.topic \in {Undefined, JNull, JStr(<<>>)}

\* C1: whatever text a successful completion call returns, the handler
\* answers 200 with success: true and a non-empty variants sequence; malformed
\* model output never ends in the 500 "Failed to generate post." response.
C1_NormalizerTotal ==
  \A r \in Reqs :
    GotText(r) =>
      /\ Done(r)
      /\ Resp(r).status = 200
      /\ Resp(r).success
      /\ Len(Resp(r).variants) >= 1

\* C2: in a success response every variant has a non-empty hook of at most
\* 120 characters and a non-empty caption, whether the hook came from the
\* model or was derived from the caption.
C2_HookAndCaptionBounds ==
  \A r \in Reqs :
    Succeeded(r) =>
      \A i \in 1..Len(Resp(r).variants) :
        /\ Resp(r).variants[i].hook # <<>>
        /\ Len(Resp(r).variants[i].hook) <= HookMax
        /\ Resp(r).variants[i].caption # <<>>

SingleHash(h) == Len(h) >= 1 /\ h[1] = "#" /\ (Len(h) >= 2 => h[2] # "#")
ExampleText == Stringify(WithVariants(<<E_example>>))
ExampleTags ==
  <<<<"#", "s", "a", "l", "e">>,
    <<"#", "d", "e", "a", "l", "s">>>>

\* C3: every hashtag of a success response starts with exactly one "#", and
\* the input tags ["sale", "##deals"] are output as ["#sale", "#deals"].
C3_ExactlyOneHash ==
  \A r \in Reqs :
    Succeeded(r) =>
      /\ \A i \in 1..Len(Resp(r).variants) :
           \A j \in 1..Len(Resp(r).variants[i].hashtags) :
             SingleHash(Resp(r).variants[i].hashtags[j])
      /\ (GotText(r) /\ RawText(r) = ExampleText)
           => Resp(r).variants[1].hashtags = ExampleTags

\* the count N the prompt of r's completion call embeds
PromptCount(r) == sent[r][1].safeVariants
InRange(n) == n.t = "num" /\ VariantsMin <= n.n /\ n.n <= VariantsMax

\* C4: the variant count embedded in the prompt is an integer in [1,3]
\* whatever variantsCount is: above 3 gives 3, 0 or a negative number gives
\* 1, an absent value gives the default, non-numeric input stays in [1,3].
C4_CountClamped ==
  \A r \in Reqs :
    sent[r] # <<>> =>
      /\ InRange(PromptCount(r))
      /\ body[r].variantsCount = Undefined => PromptCount(r) = JNum(VariantsDefault)
      /\ (body[r].variantsCount.t = "num" /\ body[r].variantsCount.n > VariantsMax)
           => PromptCount(r) = JNum(VariantsMax)
      /\ (body[r].variantsCount.t = "num" /\ body[r].variantsCount.n <= 0)
           => PromptCount(r) = JNum(VariantsMin)

\* C5: a request whose topic is missing or empty is answered 400 "topic is
\* required" and makes no completion call, with or without the API key.
C5_TopicRequired ==
  \A r \in Reqs :
    (pc[r] # "idle" /\ NoTopic(body[r])) =>
      /\ pc[r] = "done"
      /\ responses[r] = <<TopicRequired>>
      /\ sent[r] = <<>>
      /\ chat[r] = None
C5_Witness ==
  \E r \in Reqs :
    /\ pc[r] = "done"
    /\ body[r].topic = JStr(<<>>)
    /\ Truthy(apiKey)
    /\ responses[r] = <<TopicRequired>>

\* C6: with the API key absent, a request with a non-empty topic is answered
\* 500 "OPENAI_API_KEY is not set on the server." before any prompt is
\* composed, and makes no completion call.
C6_KeyRequired ==
  \A r \in Reqs :
    (pc[r] # "idle" /\ Truthy(body[r].topic) /\ ~Truthy(apiKey)) =>
      /\ pc[r] = "done"
      /\ responses[r] = <<KeyNotSet>>
      /\ sent[r] = <<>>
      /\ chat[r] = None
C6_Witness ==
  \E r \in Reqs :
    /\ pc[r] = "done"
    /\ Truthy(body[r].topic)
    /\ body[r].variantsCount = Obj1(T_toString, JNum(1))
    /\ apiKey = Undefined
    /\ responses[r] = <<KeyNotSet>>

\* C7: a request makes at most one completion call and sends at most one
\* response; when the call throws, the request ends with the single 500
\* "Failed to generate post." response carrying the details, without a
\* second call and without a success response.
C7_NoRetry ==
  \A r \in Reqs :
    /\ Len(sent[r]) <= 1
    /\ Len(responses[r]) <= 1
    /\ (chat[r] # None /\ ~chat[r].ok) =>
         /\ pc[r] = "done"
         /\ Len(sent[r]) = 1
         /\ responses[r] = <<Failed(chat[r].details)>>
C7_Witness ==
  \E r \in Reqs :
    /\ pc[r] = "done"
    /\ chat[r] = Rejected("network")
    /\ Len(sent[r]) = 1
    /\ Resp(r).status = 500

\* the parse result has an array-valued "variants"
HasVariantsArray(p) ==
  /\ p.v.t = "obj"
  /\ HasKey(p.v.o, T_variants)
  /\ Lookup(p.v.o, T_variants).t = "arr"
\* one variant whose caption is the raw text, with no hashtags
IsRawTextVariant(vs, raw) ==
  /\ Len(vs) = 1
  /\ vs[1].caption = (IF raw = <<>> THEN CaptionPlaceholder ELSE raw)
  /\ vs[1].hashtags = <<>>
  /\ vs[1].hook # <<>>

\* C8 as stated: raw text that fails to parse, or parses to a value without
\* an array-valued "variants", yields exactly one variant whose caption is
\* the raw text (the placeholder if it is empty), with empty hashtags and a
\* non-empty hook.
C8_RawTextFallback ==
  \A r \in Reqs :
    (GotText(r) /\ (~JSONParse(RawText(r)).ok \/ ~HasVariantsArray(JSONParse(RawText(r))))) =>
      /\ Succeeded(r)
      /\ IsRawTextVariant(Resp(r).variants, RawText(r))

\* C8 amended: raw text that fails to parse, or parses to null, yields the
\* one raw-text variant; raw text that parses to any other value without an
\* array-valued "variants" yields exactly the default variant.
C8_Fallbacks ==
  \A r \in Reqs :
    GotText(r) =>
      /\ (~JSONParse(RawText(r)).ok \/ JSONParse(RawText(r)) = Ret(JNull)) =>
           /\ Succeeded(r)
           /\ IsRawTextVariant(Resp(r).variants, RawText(r))
      /\ (/\ JSONParse(RawText(r)).ok
          /\ JSONParse(RawText(r)) # Ret(JNull)
          /\ ~HasVariantsArray(JSONParse(RawText(r)))) =>
           /\ Succeeded(r)
           /\ Resp(r).variants = <<DefaultVariant>>
C8_Witness ==
  \E r \in Reqs :
    /\ GotText(r)
    /\ RawText(r) = Stringify(Obj1(<<"f", "o", "o">>, JNum(1)))
    /\ Succeeded(r)
    /\ Resp(r).variantsCount = 1

\* the elements of the "variants" array of the text r's completion returned
ElementsOf(r) == Lookup(JSONParse(RawText(r)).v.o, T_variants).a
\* the field of an element, when the element is an object that has it
FieldOf(e, k) == IF e.t = "obj" /\ HasKey(e.o, k) THEN Lookup(e.o, k) ELSE Undefined
\* the repair of one field on its own
RepairedCaption(e) ==
  IF FieldOf(e, T_caption).t = "str" THEN CleanCaption(Trim(FieldOf(e, T_caption).s))
  ELSE CaptionPlaceholder
RepairedTags(e) ==
  IF FieldOf(e, T_hashtags).t = "arr" THEN CleanTags(FieldOf(e, T_hashtags).a).v
  ELSE <<>>

\* C9: a success response to a text whose "variants" is an array of n >= 1
\* objects has n variants in the same order, each element repaired on its
\* own: a caption that is missing or not a string becomes the placeholder,
\* hashtags that are missing or not an array become empty, and the other
\* elements are neither changed nor discarded.
C9_PerElementRepair ==
  \A r \in Reqs :
    (/\ GotText(r)
     /\ Succeeded(r)
     /\ JSONParse(RawText(r)).ok
     /\ HasVariantsArray(JSONParse(RawText(r)))
     /\ Len(ElementsOf(r)) >= 1
     /\ \A i \in 1..Len(ElementsOf(r)) : ElementsOf(r)[i].t = "obj") =>
      /\ Len(Resp(r).variants) = Len(ElementsOf(r))
      /\ \A i \in 1..Len(ElementsOf(r)) :
           /\ Resp(r).variants[i].caption = RepairedCaption(ElementsOf(r)[i])
           /\ Resp(r).variants[i].hashtags = RepairedTags(ElementsOf(r)[i])

\* the response of a request that runs alone with body b, key and outcome o
RunAlone(b, key, o) ==
  IF Begin(b, key).call THEN Complete(Destructure(b), o) ELSE Begin(b, key).res

\* C10: with requests overlapping in any interleaving, each request's
\* prompt and response are those it would have if it ran alone: they depend
\* on its own body and its own completion outcome only.
C10_Isolation ==
  \A r \in Reqs :
    /\ pc[r] = "idle" => (sent[r] = <<>> /\ responses[r] = <<>>)
    /\ pc[r] = "awaiting" =>
         /\ responses[r] = <<>>
         /\ Begin(body[r], apiKey).call
         /\ sent[r] = <<Begin(body[r], apiKey).prompt>>
    /\ pc[r] = "done" => responses[r] = <<RunAlone(body[r], apiKey, chat[r])>>
C10_Witness ==
  \E r \in Reqs : \E q \in Reqs \ {r} :
    /\ pc[q] = "awaiting"
    /\ Succeeded(r)
    /\ body[r] # body[q]
    /\ chat[r] # None
    /\ Resp(r).topic = body[r].topic

=============================================================================
